---------------------------- MODULE Spec2Model ----------------------------
(***************************************************************************)
(* Model of generate_question/generate_questions.py: the class             *)
(* IntelligentQuestionGenerator, which asks a generation client for a      *)
(* topic structure and for question batches and writes them to the tables  *)
(* topics, questions, choices and correct_answers.                         *)
(*                                                                         *)
(* A table is a sequence of rows; the id the store generates for a new row *)
(* is its position.  A Python dict is a record, a missing key is a field   *)
(* that is not in the record's DOMAIN, a list is a sequence.  Every        *)
(* .execute() on the store either succeeds or raises: the outcome is an    *)
(* input of the action that makes the call.                                *)
(***************************************************************************)
EXTENDS Integers, Sequences, FiniteSets, TLC

VARIABLES
    topics,            \* table "topics"
    questions,         \* table "questions"
    choices,           \* table "choices"
    correct_answers,   \* table "correct_answers"
    pc,                \* position of the single thread of control
    analysis_data,     \* insert_topic_hierarchy: parsed structure response
    main_topic_name,   \* insert_topic_hierarchy: root name
    main_topic_id,     \* insert_topic_hierarchy: id of the upserted root
    category_id,       \* insert_topic_hierarchy: id of the current category
    subcategory_id,    \* insert_topic_hierarchy: id of the current subcategory
    total_estimated_questions,
    hpos,              \* insert_topic_hierarchy: loop indices <<ci, si, li>>
    topic_id,          \* insert_questions_with_metadata: argument
    questions_data,    \* insert_questions_with_metadata: argument
    question_ids,      \* insert_questions_with_metadata: ids created so far
    qi,                \* insert_questions_with_metadata: loop index
    leaf_topics,       \* generate_intelligent_course: enumerated leaf rows
    i,                 \* generate_intelligent_course: loop index (1-based)
    total_questions,   \* generate_intelligent_course: counter
    failed_topics,     \* generate_intelligent_course: failed leaf names
    result,            \* generate_intelligent_course: returned summary
    hret,              \* value insert_topic_hierarchy returned last
    qret,              \* value insert_questions_with_metadata returned last
    runs,              \* history: number of top-level calls started
    log,               \* history: store writes of the current call, in order
    requests,          \* history: generation requests of the current run
    base,              \* history: table sizes when the current call began
    responses,         \* history: the calls answered by the stand-in client
    start,             \* history: table sizes when the current run began
    store_errors       \* history: store calls that raised in the current run

store == <<topics, questions, choices, correct_answers>>
hvars == <<analysis_data, main_topic_name, main_topic_id, category_id,
           subcategory_id, total_estimated_questions, hpos>>
qvars == <<topic_id, questions_data, question_ids, qi>>
cvars == <<leaf_topics, i, total_questions, failed_topics, result, requests>>
vars == <<topics, questions, choices, correct_answers, pc, analysis_data,
          main_topic_name, main_topic_id, category_id, subcategory_id,
          total_estimated_questions, hpos, topic_id, questions_data,
          question_ids, qi, leaf_topics, i, total_questions, failed_topics,
          result, hret, qret, runs, log, requests, base, start, store_errors,
          responses>>

-----------------------------------------------------------------------------
(* Bounds of the model.                                                    *)

\* How many times insert_topic_hierarchy is called on the same store.
MaxRuns == 2
\* How many calls of the stand-in client are compared.
MaxMockCalls == 2
\* How many leading questions of a stand-in response are kept.
MaxMockQuestions == 1
\* The longest question batch handed to insert_questions_with_metadata.
MaxBatch == 3

-----------------------------------------------------------------------------
(* Python values.                                                          *)

\* None / SQL NULL in an id column (generated ids start at 1).
None == 0

\* dict.get(key, default)
Get(d, key, default) == IF key \in DOMAIN d THEN d[key] ELSE default

\* The empty dict {} and the truth value of a dict or list.
EmptyDict == [k \in {} |-> 0]
\* The test "is not None" in place of the truth value: an empty dict or
\* list passes it.
IsNotNone(x) == TRUE
Truthy(x) == DOMAIN x # {}

\* sum(d.values())
RECURSIVE SumOver(_, _)
SumOver(d, keys) ==
    IF keys = {} THEN 0
    ELSE LET k == CHOOSE x \in keys : TRUE
         IN  d[k] + SumOver(d, keys \ {k})
SumValues(d) == SumOver(d, DOMAIN d)

\* The default estimate for a leaf topic without a question strategy.
DefaultEstimate == 100

-----------------------------------------------------------------------------
(* The store.                                                              *)

\* The conflict key of the root upsert.  The column is filled by the
\* database from the row's name; names that differ only in case share it.
SlugOf(name) ==
    CASE name = "Python" -> "python"
      [] name = "python" -> "python"
      [] name = "Marketing" -> "marketing"
      [] OTHER -> name

\* The row a root upsert conflicts with (None when there is none): the
\* root row carrying the same slug.
ConflictRow(name) ==
    IF \E n \in 1..Len(topics) :
          topics[n].parent_id = None /\ SlugOf(topics[n].name) = SlugOf(name)
    THEN CHOOSE n \in 1..Len(topics) :
          topics[n].parent_id = None /\ SlugOf(topics[n].name) = SlugOf(name)
    ELSE None

\* table.insert(row).execute(): the table with the row appended under a
\* generated id.
NewId(table) == Len(table) + 1
\* An insert that skips a row whose name and parent the table already holds.
InsertRowDedup(table, row) ==
    IF \E n \in 1..Len(table) :
          /\ "name" \in DOMAIN row
          /\ table[n].name = row.name
          /\ table[n].parent_id = row.parent_id
    THEN table
    ELSE Append(table, [id |-> NewId(table)] @@ row)
InsertRow(table, row) == Append(table, [id |-> NewId(table)] @@ row)

\* table.insert(rows).execute() for a list of rows.
RECURSIVE InsertRows(_, _)
InsertRows(table, rows) ==
    IF rows = <<>> THEN table
    ELSE InsertRows(InsertRow(table, Head(rows)), Tail(rows))

\* topics.upsert(row, on_conflict='slug').execute(): id of the written row
\* and the table after it.
UpsertId(row) ==
    IF ConflictRow(row.name) = None THEN NewId(topics) ELSE ConflictRow(row.name)
\* The root written with a plain insert instead of the upsert.
UpsertRowAsInsert(row) == InsertRow(topics, row)
UpsertRow(row) ==
    IF ConflictRow(row.name) = None
    THEN InsertRow(topics, row)
    ELSE [topics EXCEPT ![ConflictRow(row.name)] =
              [id |-> ConflictRow(row.name)] @@ row]

\* An update without the filter on the id: every row gets the patch.
UpdateRowEverywhere(id, patch) ==
    [n \in 1..Len(topics) |-> patch @@ topics[n]]
\* topics.update(patch).eq("id", id).execute()
UpdateRow(id, patch) ==
    [n \in 1..Len(topics) |->
        IF topics[n].id = id THEN patch @@ topics[n] ELSE topics[n]]

\* One store write in the history of the current call.
Wrote(op, table, id, path) ==
    [op |-> op, table |-> table, id |-> id, path |-> path]

-----------------------------------------------------------------------------
(* Structure responses: the inputs of insert_topic_hierarchy.              *)

SampleAnalysis ==
    [subject_area |-> "General Knowledge", complexity_level |-> "Intermediate",
     estimated_study_hours |-> "20-30 hours"]

SampleStrategy == [multiple_choice |-> 2, true_false |-> 1]

\* Leaf descriptors: with a question strategy, without one, with an empty one.
LeafS(name) ==
    [name |-> name, description |-> "d", key_concepts |-> <<"k">>,
     question_strategy |-> SampleStrategy,
     difficulty_distribution |-> [level_1 |-> 3]]
LeafN(name) == [name |-> name, description |-> "d"]
LeafE(name) == [name |-> name, description |-> "d", question_strategy |-> EmptyDict]
Sub(name, leaves) ==
    [name |-> name, description |-> "d", prerequisites |-> <<"p">>,
     leaf_topics |-> leaves]
Cat(name, subs) ==
    [name |-> name, description |-> "d", learning_outcomes |-> <<"o">>,
     subcategories |-> subs]
Structure(cats) ==
    [analysis |-> SampleAnalysis, structure |-> [main_categories |-> cats]]

\* No category at all.
StructureEmpty == Structure(<<>>)
\* One category, one subcategory, two leaf topics.
StructureA == Structure(<< Cat("Core", << Sub("Basics", << LeafS("Intro"), LeafN("Usage") >>) >>) >>)
\* Two categories of different shape; a subcategory without leaves.
StructureB ==
    Structure(<< Cat("Verbs", << Sub("Past", << LeafE("Intro") >>), Sub("Mood", <<>>) >>),
                 Cat("Cases", << Sub("Locative", << LeafS("Movement") >>) >>) >>)
\* A category without subcategories, then one that lacks "description".
StructureNoDescription ==
    Structure(<< Cat("Core", <<>>),
                 [name |-> "Broken", subcategories |-> <<>>] >>)
\* A response without the "structure" key.
StructureMissing == [analysis |-> SampleAnalysis]

WellFormedStructures == {StructureEmpty, StructureA, StructureB}
StructureResponses ==
    WellFormedStructures \cup {StructureNoDescription, StructureMissing}

RootNames == {"Python", "python", "Marketing"}

\* The declared categories, subcategories and leaf topics of a parsed
\* response (empty where the key is missing).
Cats(a) == IF "structure" \in DOMAIN a THEN a.structure.main_categories ELSE <<>>
Subs(a, c) == Get(Cats(a)[c], "subcategories", <<>>)
Leaves(a, c, s) == Get(Subs(a, c)[s], "leaf_topics", <<>>)

\* Number of nodes a response declares below the root.
RECURSIVE SumTo(_, _)
SumTo(f(_), n) == IF n = 0 THEN 0 ELSE f(n) + SumTo(f, n - 1)
SubNodes(a, c) ==
    LET leafCount(s) == Len(Leaves(a, c, s))
    IN  Len(Subs(a, c)) + SumTo(leafCount, Len(Subs(a, c)))
DeclaredNodes(a) ==
    LET below(c) == SubNodes(a, c)
    IN  Len(Cats(a)) + SumTo(below, Len(Cats(a)))


-----------------------------------------------------------------------------
(* insert_topic_hierarchy                                                  *)

\* The three nested loops: the position the control reaches when the loop
\* over categories / subcategories / leaf topics is entered at an index.
LoopCat(a, c) ==
    IF c <= Len(Cats(a))
    THEN [pc |-> "h_category", pos |-> <<c, 0, 0>>]
    ELSE [pc |-> "h_update", pos |-> <<c, 0, 0>>]
LoopSub(a, c, s) ==
    IF s <= Len(Subs(a, c))
    THEN [pc |-> "h_subcategory", pos |-> <<c, s, 0>>]
    ELSE LoopCat(a, c + 1)
\* LoopLeaf that leaves the category when the leaves of a subcategory are done.
LoopLeafThenCategory(a, c, s, l) ==
    IF l <= Len(Leaves(a, c, s))
    THEN [pc |-> "h_leaf", pos |-> <<c, s, l>>]
    ELSE LoopCat(a, c + 1)
LoopLeaf(a, c, s, l) ==
    IF l <= Len(Leaves(a, c, s))
    THEN [pc |-> "h_leaf", pos |-> <<c, s, l>>]
    ELSE LoopSub(a, c, s + 1)

\* The rows the function builds.
MainTopicData(a, name) ==
    [name |-> name,
     description |-> <<"Complete course: ", name>>,
     parent_id |-> None,
     metadata |-> [analysis |-> Get(a, "analysis", EmptyDict),
                   course_type |-> "auto_generated",
                   total_estimated_questions |-> 0]]
CategoryData(category, parent) ==
    [name |-> category.name,
     description |-> <<category.description>>,
     parent_id |-> parent,
     metadata |-> [learning_outcomes |-> Get(category, "learning_outcomes", <<>>),
                   category_type |-> "main_category"]]
SubcategoryData(subcategory, parent) ==
    [name |-> subcategory.name,
     description |-> <<subcategory.description>>,
     parent_id |-> parent,
     metadata |-> [prerequisites |-> Get(subcategory, "prerequisites", <<>>),
                   category_type |-> "subcategory"]]
\* A leaf row hung under the category instead of the subcategory.
LeafDataUnderCategory(leaf_topic, parent) ==
    [name |-> leaf_topic.name,
     description |-> <<leaf_topic.description>>,
     parent_id |-> category_id,
     metadata |-> [key_concepts |-> Get(leaf_topic, "key_concepts", <<>>),
                   question_strategy |-> Get(leaf_topic, "question_strategy", EmptyDict),
                   difficulty_distribution |->
                       Get(leaf_topic, "difficulty_distribution", EmptyDict),
                   category_type |-> "leaf_topic"]]
LeafData(leaf_topic, parent) ==
    [name |-> leaf_topic.name,
     description |-> <<leaf_topic.description>>,
     parent_id |-> parent,
     metadata |-> [key_concepts |-> Get(leaf_topic, "key_concepts", <<>>),
                   question_strategy |-> Get(leaf_topic, "question_strategy", EmptyDict),
                   difficulty_distribution |->
                       Get(leaf_topic, "difficulty_distribution", EmptyDict),
                   category_type |-> "leaf_topic"]]

\* The estimate of a leaf without the default for an empty strategy.
EstimatedQuestionsNoDefault(leaf_topic) ==
    SumValues(Get(leaf_topic, "question_strategy", EmptyDict))
\* sum(strategy.values()) if strategy else 100
EstimatedQuestions(leaf_topic) ==
    LET strategy == Get(leaf_topic, "question_strategy", EmptyDict)
    IN  IF Truthy(strategy) THEN SumValues(strategy) ELSE DefaultEstimate

\* The metadata patch written to the root once the totals are known.
RootPatch(a, name, total) ==
    [metadata |-> [MainTopicData(a, name).metadata
                     EXCEPT !.total_estimated_questions = total]]

Sizes == [topics |-> Len(topics), questions |-> Len(questions),
          choices |-> Len(choices), correct_answers |-> Len(correct_answers)]

\* Entry: the arguments are bound and the locals are fresh.
EnterHierarchy(a, name) ==
    /\ pc' = "h_upsert"
    /\ analysis_data' = a
    /\ main_topic_name' = name
    /\ main_topic_id' = None
    /\ category_id' = None
    /\ subcategory_id' = None
    /\ total_estimated_questions' = 0
    /\ hpos' = <<0, 0, 0>>
    /\ log' = <<>>
    /\ base' = Sizes

\* except Exception as e: ... raise e, for an error raised by the code
\* itself (a missing key) and for one raised by a store call.
HierarchyRaise ==
    /\ pc' = "h_raised"
    /\ UNCHANGED <<store, hvars, qvars, cvars, runs, responses, start, store_errors, hret, qret, log, base>>
HierarchyStoreError ==
    /\ pc' = "h_raised"
    /\ store_errors' = store_errors + 1
    /\ UNCHANGED <<store, hvars, qvars, cvars, runs, responses, start, hret, qret, log, base>>

\* The upsert of the root row, then the head of the category loop.
UpsertRoot ==
    /\ pc = "h_upsert"
    /\ \E ok \in BOOLEAN :
         IF ~ok THEN HierarchyStoreError
         ELSE LET row == MainTopicData(analysis_data, main_topic_name)
                  next == LoopCat(analysis_data, 1)
              IN  /\ topics' = UpsertRow(row)
                  /\ main_topic_id' = UpsertId(row)
                  /\ total_estimated_questions' = 0
                  /\ log' = Append(log, Wrote("upsert", "topics", UpsertId(row), <<>>))
                  /\ IF "structure" \in DOMAIN analysis_data
                     THEN pc' = next.pc /\ hpos' = next.pos
                     ELSE pc' = "h_raised" /\ hpos' = hpos
                  /\ UNCHANGED <<questions, choices, correct_answers, analysis_data,
                                 main_topic_name, category_id, subcategory_id,
                                 qvars, cvars, runs, responses, start, store_errors, hret, qret, base>>

\* One iteration head of the category loop: build and insert the row, then
\* enter the subcategory loop.
InsertCategory ==
    /\ pc = "h_category"
    /\ LET c == hpos[1]
           category == Cats(analysis_data)[c]
       IN  IF ~({"name", "description"} \subseteq DOMAIN category)
           THEN HierarchyRaise
           ELSE \E ok \in BOOLEAN :
             IF ~ok THEN HierarchyStoreError
             ELSE LET next == LoopSub(analysis_data, c, 1)
                  IN  /\ topics' = InsertRow(topics, CategoryData(category, main_topic_id))
                      /\ category_id' = NewId(topics)
                      /\ log' = Append(log, Wrote("insert", "topics", NewId(topics), <<c>>))
                      /\ IF "subcategories" \in DOMAIN category
                         THEN pc' = next.pc /\ hpos' = next.pos
                         ELSE pc' = "h_raised" /\ hpos' = hpos
                      /\ UNCHANGED <<questions, choices, correct_answers, analysis_data,
                                     main_topic_name, main_topic_id, subcategory_id,
                                     total_estimated_questions, qvars, cvars, runs, responses, start, store_errors, hret, qret, base>>

InsertSubcategory ==
    /\ pc = "h_subcategory"
    /\ LET c == hpos[1]
           s == hpos[2]
           subcategory == Subs(analysis_data, c)[s]
       IN  IF ~({"name", "description"} \subseteq DOMAIN subcategory)
           THEN HierarchyRaise
           ELSE \E ok \in BOOLEAN :
             IF ~ok THEN HierarchyStoreError
             ELSE LET next == LoopLeaf(analysis_data, c, s, 1)
                  IN  /\ topics' = InsertRow(topics, SubcategoryData(subcategory, category_id))
                      /\ subcategory_id' = NewId(topics)
                      /\ log' = Append(log, Wrote("insert", "topics", NewId(topics), <<c, s>>))
                      /\ IF "leaf_topics" \in DOMAIN subcategory
                         THEN pc' = next.pc /\ hpos' = next.pos
                         ELSE pc' = "h_raised" /\ hpos' = hpos
                      /\ UNCHANGED <<questions, choices, correct_answers, analysis_data,
                                     main_topic_name, main_topic_id, category_id,
                                     total_estimated_questions, qvars, cvars, runs, responses, start, store_errors, hret, qret, base>>

\* One iteration of the leaf loop: insert the row and count its estimate.
InsertLeaf ==
    /\ pc = "h_leaf"
    /\ LET c == hpos[1]
           s == hpos[2]
           l == hpos[3]
           leaf_topic == Leaves(analysis_data, c, s)[l]
       IN  IF ~({"name", "description"} \subseteq DOMAIN leaf_topic)
           THEN HierarchyRaise
           ELSE \E ok \in BOOLEAN :
             IF ~ok THEN HierarchyStoreError
             ELSE LET next == LoopLeaf(analysis_data, c, s, l + 1)
                  IN  /\ topics' = InsertRow(topics, LeafData(leaf_topic, subcategory_id))
                      /\ log' = Append(log, Wrote("insert", "topics", NewId(topics), <<c, s, l>>))
                      /\ total_estimated_questions' =
                             total_estimated_questions + EstimatedQuestions(leaf_topic)
                      /\ pc' = next.pc
                      /\ hpos' = next.pos
                      /\ UNCHANGED <<questions, choices, correct_answers, analysis_data,
                                     main_topic_name, main_topic_id, category_id,
                                     subcategory_id, qvars, cvars, runs, responses, start, store_errors, hret, qret, base>>

\* The metadata patch on the root, then return main_topic_id.
UpdateRoot ==
    /\ pc = "h_update"
    /\ \E ok \in BOOLEAN :
         IF ~ok THEN HierarchyStoreError
         ELSE /\ topics' = UpdateRow(main_topic_id,
                     RootPatch(analysis_data, main_topic_name, total_estimated_questions))
              /\ log' = Append(log, Wrote("update", "topics", main_topic_id, <<>>))
              /\ pc' = "h_returned"
              /\ hret' = main_topic_id
              /\ UNCHANGED <<questions, choices, correct_answers, hvars, qvars,
                             cvars, runs, responses, start, store_errors, qret, base>>

HierarchyStep ==
    \/ UpsertRoot
    \/ InsertCategory
    \/ InsertSubcategory
    \/ InsertLeaf
    \/ UpdateRoot

-----------------------------------------------------------------------------
(* Question batches: the inputs of insert_questions_with_metadata.         *)

\* A well-formed multiple_choice question.
QMC ==
    [question_text |-> "Which?", question_type |-> "multiple_choice",
     explanation |-> "because", difficulty_level |-> 3, points |-> 2,
     cognitive_level |-> "recall", key_concept |-> "k",
     choices |-> << [text |-> "A", is_correct |-> FALSE],
                    [text |-> "B", is_correct |-> TRUE] >>]
\* A true_false question with a single choice and no optional field.
QTF ==
    [question_text |-> "True?", question_type |-> "true_false",
     explanation |-> "because",
     choices |-> << [text |-> "True", is_correct |-> TRUE] >>]
\* A short_answer question whose answer carries no optional field.
QSA ==
    [question_text |-> "Explain", question_type |-> "short_answer",
     explanation |-> "because", points |-> 3,
     correct_answers |-> << [text |-> "x"] >>]
\* A fill_in_blank question with two answers, the first with every field.
QFIB ==
    [question_text |-> "Fill", question_type |-> "fill_in_blank",
     explanation |-> "because", difficulty_level |-> 5,
     correct_answers |-> << [text |-> "y", is_case_sensitive |-> TRUE,
                             is_exact_match |-> FALSE, points |-> 2],
                            [text |-> "z"] >>]
\* A multiple_choice question that carries both lists.
QBoth ==
    [question_text |-> "Both?", question_type |-> "multiple_choice",
     explanation |-> "because",
     choices |-> << [text |-> "A", is_correct |-> TRUE] >>,
     correct_answers |-> << [text |-> "x"] >>]
\* An essay question: no choices, no answers.
QEssay ==
    [question_text |-> "Discuss", question_type |-> "essay",
     explanation |-> "because"]
\* A question without "question_text".
QNoText ==
    [question_type |-> "true_false", explanation |-> "because",
     choices |-> << [text |-> "True", is_correct |-> TRUE] >>]
\* A question whose second choice lacks "is_correct".
QBadChoice ==
    [question_text |-> "Which?", question_type |-> "multiple_choice",
     explanation |-> "because",
     choices |-> << [text |-> "A", is_correct |-> TRUE], [text |-> "B"] >>]

QuestionElements == {QMC, QTF, QSA, QFIB, QBoth, QEssay, QNoText, QBadChoice}

\* What json.loads returns: a list of dicts, or an object.
JsonList(items) == [type |-> "list", value |-> items]
JsonObject(d) == [type |-> "object", value |-> d]
UnknownRequest == JsonObject([error |-> "Unknown request type"])

RECURSIVE SeqsUpTo(_, _)
SeqsUpTo(S, n) ==
    IF n = 0 THEN {<<>>}
    ELSE LET shorter == SeqsUpTo(S, n - 1)
         IN  shorter \cup {Append(q, x) : q \in shorter, x \in S}

QuestionBatches ==
    {JsonList(items) : items \in SeqsUpTo(QuestionElements, MaxBatch)}
        \cup {UnknownRequest}

-----------------------------------------------------------------------------
(* insert_questions_with_metadata                                          *)

QuestionMetadata(q_data) ==
    [cognitive_level |-> Get(q_data, "cognitive_level", "understanding"),
     key_concept |-> Get(q_data, "key_concept", ""),
     auto_generated |-> TRUE,
     generation_timestamp |-> "now()"]
QuestionData(topic, q_data) ==
    [topic_id |-> topic,
     question_text |-> q_data.question_text,
     question_type |-> q_data.question_type,
     explanation |-> q_data.explanation,
     points |-> Get(q_data, "points", 1),
     difficulty_level |-> Get(q_data, "difficulty_level", 1),
     metadata |-> QuestionMetadata(q_data)]
ChoiceData(question, n, choice) ==
    [question_id |-> question,
     choice_text |-> choice.text,
     is_correct |-> choice.is_correct,
     sort_order |-> n,
     metadata |-> [auto_generated |-> TRUE]]
\* AnswerData with is_exact_match defaulting to false.
AnswerDataInexact(question, n, answer) ==
    [question_id |-> question,
     answer_text |-> answer.text,
     is_case_sensitive |-> Get(answer, "is_case_sensitive", FALSE),
     is_exact_match |-> Get(answer, "is_exact_match", FALSE),
     points |-> Get(answer, "points", 1),
     sort_order |-> n]
AnswerData(question, n, answer) ==
    [question_id |-> question,
     answer_text |-> answer.text,
     is_case_sensitive |-> Get(answer, "is_case_sensitive", FALSE),
     is_exact_match |-> Get(answer, "is_exact_match", TRUE),
     points |-> Get(answer, "points", 1),
     sort_order |-> n]
\* ChoicesData with positions counted from 1.
ChoicesDataFromOne(question, cs) ==
    [k \in 1..Len(cs) |-> ChoiceData(question, k, cs[k])]
\* ChoicesData that completes a single choice with its complement.
ChoicesDataRepaired(question, cs) ==
    IF Len(cs) = 1
    THEN << ChoiceData(question, 0, cs[1]),
            ChoiceData(question, 1, [text |-> "Other", is_correct |-> ~cs[1].is_correct]) >>
    ELSE [k \in 1..Len(cs) |-> ChoiceData(question, k - 1, cs[k])]
\* for i, choice in enumerate(...): the rows of one batch insert.
ChoicesData(question, cs) ==
    [k \in 1..Len(cs) |-> ChoiceData(question, k - 1, cs[k])]
AnswersData(question, as) ==
    [k \in 1..Len(as) |-> AnswerData(question, k - 1, as[k])]

\* The keys whose absence raises KeyError while a row is built.
QuestionKeys == {"question_text", "question_type", "explanation"}
ChoiceKeys == {"text", "is_correct"}
AnswerKeys == {"text"}

\* q_data.get("choices") / q_data.get("correct_answers")
ChoicesOf(q_data) == Get(q_data, "choices", <<>>)
AnswersOf(q_data) == Get(q_data, "correct_answers", <<>>)

\* The id of the first question row of the batch.
question_idOfFirst == question_ids[1]
\* The id of the question row of the current iteration.
question_id == question_ids[Len(question_ids)]

\* Where the control goes: the head of the loop over the batch at index j,
\* and the two tests that follow the insert of a question row.
QLoop(data, j) ==
    IF data.type = "list"
    THEN IF j <= Len(data.value)
         THEN [pc |-> "q_question", qi |-> j]
         ELSE [pc |-> "q_returned", qi |-> j]
    ELSE IF Truthy(data.value)
         THEN [pc |-> "q_raised", qi |-> j]
         ELSE [pc |-> "q_returned", qi |-> j]
AfterChoices(data, j) ==
    IF Truthy(AnswersOf(data.value[j]))
    THEN [pc |-> "q_answers", qi |-> j]
    ELSE QLoop(data, j + 1)
AfterQuestion(data, j) ==
    IF Truthy(ChoicesOf(data.value[j]))
    THEN [pc |-> "q_choices", qi |-> j]
    ELSE AfterChoices(data, j)

\* Move to a position; reaching the end of the loop returns question_ids.
QGoto(pos, ids) ==
    /\ pc' = pos.pc
    /\ qi' = pos.qi
    /\ qret' = IF pos.pc = "q_returned" THEN ids ELSE qret

\* The history entries of n rows written to a table for question j.
RowsWritten(table, first, j, n) ==
    [k \in 1..n |-> Wrote("insert", table, first + k - 1, <<j, k>>)]

\* Entry: the arguments are bound, question_ids = [].
EnterInsertQuestions(topic, data) ==
    /\ topic_id' = topic
    /\ questions_data' = data
    /\ question_ids' = <<>>
    /\ log' = <<>>
    /\ base' = Sizes
    /\ QGoto(QLoop(data, 1), <<>>)

\* except Exception as e: ... raise e, for an error raised by the code
\* itself (a missing key, a batch that is no list of dicts) and for one
\* raised by a store call.
QuestionsRaise ==
    /\ pc' = "q_raised"
    /\ UNCHANGED <<store, hvars, qvars, cvars, runs, responses, start, store_errors, hret, qret, log, base>>
\* A store error after which the loop goes on with the next question.
QuestionsStoreErrorSkips ==
    /\ store_errors' = store_errors + 1
    /\ QGoto(QLoop(questions_data, qi + 1), question_ids)
    /\ UNCHANGED <<store, hvars, topic_id, questions_data, question_ids, cvars,
                   runs, responses, start, hret, log, base>>
QuestionsStoreError ==
    /\ pc' = "q_raised"
    /\ store_errors' = store_errors + 1
    /\ UNCHANGED <<store, hvars, qvars, cvars, runs, responses, start, hret, qret, log, base>>

\* One iteration head: build the question row and insert it.
InsertQuestion ==
    /\ pc = "q_question"
    /\ LET q_data == questions_data.value[qi]
       IN  IF ~(QuestionKeys \subseteq DOMAIN q_data)
           THEN QuestionsRaise
           ELSE \E ok \in BOOLEAN :
             IF ~ok THEN QuestionsStoreError
             ELSE /\ questions' = InsertRow(questions, QuestionData(topic_id, q_data))
                  /\ question_ids' = Append(question_ids, NewId(questions))
                  /\ log' = Append(log, Wrote("insert", "questions", NewId(questions), <<qi>>))
                  /\ QGoto(AfterQuestion(questions_data, qi), question_ids')
                  /\ UNCHANGED <<topics, choices, correct_answers, hvars, topic_id,
                                 questions_data, cvars, runs, responses, start, store_errors, base, hret>>

\* if q_data.get("choices"): build the rows and insert them in one call.
InsertChoices ==
    /\ pc = "q_choices"
    /\ LET cs == ChoicesOf(questions_data.value[qi])
       IN  IF \E k \in 1..Len(cs) : ~(ChoiceKeys \subseteq DOMAIN cs[k])
           THEN QuestionsRaise
           ELSE \E ok \in BOOLEAN :
             IF ~ok THEN QuestionsStoreError
             ELSE /\ choices' = InsertRows(choices, ChoicesData(question_id, cs))
                  /\ log' = log \o RowsWritten("choices", NewId(choices), qi, Len(cs))
                  /\ QGoto(AfterChoices(questions_data, qi), question_ids)
                  /\ UNCHANGED <<topics, questions, correct_answers, hvars, topic_id,
                                 questions_data, question_ids, cvars, runs, responses, start, store_errors, base, hret>>

\* if q_data.get("correct_answers"): build the rows and insert them.
InsertAnswers ==
    /\ pc = "q_answers"
    /\ LET as == AnswersOf(questions_data.value[qi])
       IN  IF \E k \in 1..Len(as) : ~(AnswerKeys \subseteq DOMAIN as[k])
           THEN QuestionsRaise
           ELSE \E ok \in BOOLEAN :
             IF ~ok THEN QuestionsStoreError
             ELSE /\ correct_answers' =
                         InsertRows(correct_answers, AnswersData(question_id, as))
                  /\ log' = log \o RowsWritten("correct_answers", NewId(correct_answers),
                                               qi, Len(as))
                  /\ QGoto(QLoop(questions_data, qi + 1), question_ids)
                  /\ UNCHANGED <<topics, questions, choices, hvars, topic_id,
                                 questions_data, question_ids, cvars, runs, responses, start, store_errors, base, hret>>

QuestionsStep ==
    \/ InsertQuestion
    \/ InsertChoices
    \/ InsertAnswers

-----------------------------------------------------------------------------
(* Stores an earlier run may have left behind.                             *)

EmptyStore ==
    [topics |-> <<>>, questions |-> <<>>, choices |-> <<>>, correct_answers |-> <<>>]

\* A root "Python" with one category, one subcategory and one leaf topic,
\* and one question on the leaf.
PriorStructure ==
    Structure(<< Cat("Old", << Sub("OldSub", << LeafS("OldLeaf") >>) >>) >>)
PriorTopics ==
    LET a == PriorStructure
        t1 == InsertRow(<<>>, RootPatch(a, "Python", 3) @@ MainTopicData(a, "Python"))
        t2 == InsertRow(t1, CategoryData(Cats(a)[1], 1))
        t3 == InsertRow(t2, SubcategoryData(Subs(a, 1)[1], 2))
    IN  InsertRow(t3, LeafData(Leaves(a, 1, 1)[1], 3))
PriorLeafId == Len(PriorTopics)
PriorStore ==
    [topics |-> PriorTopics,
     questions |-> InsertRow(<<>>, QuestionData(PriorLeafId, QTF)),
     choices |-> InsertRows(<<>>, ChoicesData(1, QTF.choices)),
     correct_answers |-> <<>>]

-----------------------------------------------------------------------------
(* The generation client.                                                  *)

\* The response texts the client may return to a structure request and to
\* a question request; "not json" is text that is no JSON document.
StructureTexts ==
    {"not json", "{error}", "{empty}", "{A}", "{B}", "{no description}",
     "{no structure}"}
QuestionTexts ==
    {"not json", "[]", "[QSA,QMC]", "[QMC,QNoText]"}

\* json.loads: the parsed value, or JSONDecodeError (ok = FALSE).
json_loads(text) ==
    CASE text = "not json" -> [ok |-> FALSE, value |-> JsonList(<<>>)]
      [] text = "{error}" -> [ok |-> TRUE, value |-> UnknownRequest]
      [] text = "{empty}" -> [ok |-> TRUE, value |-> JsonObject(StructureEmpty)]
      [] text = "{A}" -> [ok |-> TRUE, value |-> JsonObject(StructureA)]
      [] text = "{B}" -> [ok |-> TRUE, value |-> JsonObject(StructureB)]
      [] text = "{no description}" ->
             [ok |-> TRUE, value |-> JsonObject(StructureNoDescription)]
      [] text = "{no structure}" ->
             [ok |-> TRUE, value |-> JsonObject(StructureMissing)]
      [] text = "[]" -> [ok |-> TRUE, value |-> JsonList(<<>>)]
      [] text = "[QSA,QMC]" -> [ok |-> TRUE, value |-> JsonList(<<QSA, QMC>>)]
      [] text = "[QMC,QNoText]" -> [ok |-> TRUE, value |-> JsonList(<<QMC, QNoText>>)]

\* chat.completions.create: it raises, or it returns a text.
ClientRaises == [raises |-> TRUE, text |-> ""]
Replies(texts) == {ClientRaises} \cup {[raises |-> FALSE, text |-> t] : t \in texts}

\* generate_comprehensive_questions: the parsed batch; [] when the text
\* does not parse.  An error of the client propagates (raised = TRUE).
generate_comprehensive_questions(reply) ==
    IF reply.raises
    THEN [raised |-> TRUE, questions_data |-> JsonList(<<>>)]
    ELSE IF json_loads(reply.text).ok
         THEN [raised |-> FALSE, questions_data |-> json_loads(reply.text).value]
         ELSE [raised |-> FALSE, questions_data |-> JsonList(<<>>)]

-----------------------------------------------------------------------------
(* generate_intelligent_course                                             *)

AnalysisKeys == {"subject_area", "complexity_level", "estimated_study_hours"}

\* Steps 1 and 2 up to the call of insert_topic_hierarchy: the structure
\* request, json.loads and the three prints that read the analysis.
StructureAccepted(reply) ==
    /\ ~reply.raises
    /\ json_loads(reply.text).ok
    /\ json_loads(reply.text).value.type = "object"
    /\ "analysis" \in DOMAIN json_loads(reply.text).value.value
    /\ AnalysisKeys \subseteq DOMAIN json_loads(reply.text).value.value.analysis

\* One request in the history of the run, with the client's reply.
StructureRequest(reply) == [kind |-> "structure", topic |-> None, reply |-> reply]
QuestionRequest(topic, reply) ==
    [kind |-> "questions", topic |-> topic.id, reply |-> reply]

\* StartCourse that goes on with an empty structure when step 1 fails.
StartCourseDefaultsStructure ==
    /\ pc = "idle"
    /\ runs' = runs + 1
    /\ UNCHANGED responses
    /\ start' = Sizes
    /\ store_errors' = 0
    /\ \E topic_input \in RootNames, reply \in Replies(StructureTexts) :
       /\ requests' = <<StructureRequest(reply)>>
       /\ EnterHierarchy(IF StructureAccepted(reply)
                         THEN json_loads(reply.text).value.value
                         ELSE StructureEmpty, topic_input)
       /\ UNCHANGED <<store, qvars, leaf_topics, i, total_questions,
                      failed_topics, result, hret, qret>>
StartCourse ==
    /\ pc = "idle"
    /\ runs' = runs + 1
    /\ UNCHANGED responses
    /\ start' = Sizes
    /\ store_errors' = 0
    /\ \E topic_input \in RootNames, reply \in Replies(StructureTexts) :
       /\ requests' = <<StructureRequest(reply)>>
       /\ IF StructureAccepted(reply)
         THEN /\ EnterHierarchy(json_loads(reply.text).value.value, topic_input)
              /\ UNCHANGED <<store, qvars, leaf_topics, i, total_questions,
                             failed_topics, result, hret, qret>>
         ELSE /\ pc' = "fatal"
              /\ UNCHANGED <<store, hvars, qvars, leaf_topics, i, total_questions,
                             failed_topics, result, hret, qret, log, base>>

\* HierarchyError that goes on to step 3 as if the call had returned.
HierarchyErrorContinues ==
    /\ pc = "h_raised"
    /\ pc' = "h_returned"
    /\ UNCHANGED <<store, hvars, qvars, cvars, runs, responses, start, store_errors, hret, qret, log, base>>
\* An exception of insert_topic_hierarchy leaves generate_intelligent_course.
HierarchyError ==
    /\ pc = "h_raised"
    /\ pc' = "fatal"
    /\ UNCHANGED <<store, hvars, qvars, cvars, runs, responses, start, store_errors, hret, qret, log, base>>

\* select("*").eq("metadata->>category_type", "leaf_topic"): the rows
\* tagged as leaf topics, in an order the store chooses.
LeafRowIds ==
    {n \in 1..Len(topics) :
        /\ "category_type" \in DOMAIN topics[n].metadata
        /\ topics[n].metadata.category_type = "leaf_topic"}
SelectLeafTopics ==
    {[k \in 1..Cardinality(LeafRowIds) |-> topics[order[k]]] :
        order \in {f \in [1..Cardinality(LeafRowIds) -> LeafRowIds] :
                      \A x, y \in DOMAIN f : x # y => f[x] # f[y]}}

\* The returned summary.
Summary(leaves, total, failed) ==
    [main_topic_id |-> main_topic_id,
     total_topics |-> Len(leaves),
     total_questions |-> total,
     failed_topics |-> failed,
     analysis |-> analysis_data.analysis]

\* CourseLoop that treats an empty enumeration as an error.
CourseLoopEmptyIsError(leaves, j, total, failed) ==
    /\ i' = j
    /\ IF leaves = <<>>
       THEN pc' = "fatal" /\ result' = result
       ELSE IF j <= Len(leaves)
            THEN pc' = "c_generate" /\ result' = result
            ELSE pc' = "done" /\ result' = Summary(leaves, total, failed)
\* The head of the loop over leaf_topics at index j: the next leaf topic,
\* or the summary.
CourseLoop(leaves, j, total, failed) ==
    /\ i' = j
    /\ IF j <= Len(leaves)
       THEN pc' = "c_generate" /\ result' = result
       ELSE pc' = "done" /\ result' = Summary(leaves, total, failed)

\* Step 3, then the first loop head.
EnumerateLeaves ==
    /\ pc = "h_returned"
    /\ \E ok \in BOOLEAN :
         IF ~ok
         THEN /\ pc' = "fatal"
              /\ store_errors' = store_errors + 1
              /\ UNCHANGED <<leaf_topics, i, total_questions, failed_topics, result>>
         ELSE \E rows \in SelectLeafTopics :
                /\ leaf_topics' = rows
                /\ total_questions' = 0
                /\ failed_topics' = <<>>
                /\ store_errors' = store_errors
                /\ CourseLoop(rows, 1, 0, <<>>)
    /\ UNCHANGED <<store, hvars, qvars, requests, runs, responses, start, hret, qret, log, base>>

\* A failed leaf topic that ends the run.
LeafFailedAborts ==
    /\ pc' = "fatal"
    /\ UNCHANGED <<leaf_topics, i, total_questions, failed_topics, result>>
\* A failed leaf topic that is skipped without being recorded.
LeafFailedUnrecorded ==
    /\ CourseLoop(leaf_topics, i + 1, total_questions, failed_topics)
    /\ UNCHANGED <<leaf_topics, total_questions, failed_topics>>
\* failed_topics.append(topic["name"]), then the next leaf topic.
LeafFailed ==
    /\ failed_topics' = Append(failed_topics, leaf_topics[i].name)
    /\ CourseLoop(leaf_topics, i + 1, total_questions, failed_topics')
    /\ UNCHANGED <<leaf_topics, total_questions>>

\* A successful leaf topic that is also recorded as failed.
LeafSucceededAlsoFailed(ids) ==
    /\ total_questions' = total_questions + Len(ids)
    /\ failed_topics' = Append(failed_topics, leaf_topics[i].name)
    /\ CourseLoop(leaf_topics, i + 1, total_questions', failed_topics')
    /\ UNCHANGED leaf_topics
\* A successful leaf topic after which the same leaf topic is requested again.
LeafSucceededRetries(ids) ==
    /\ total_questions' = total_questions + Len(ids)
    /\ CourseLoop(leaf_topics, i, total_questions', failed_topics)
    /\ UNCHANGED <<leaf_topics, failed_topics>>
\* total_questions += len(question_ids), then the next leaf topic.
LeafSucceeded(ids) ==
    /\ total_questions' = total_questions + Len(ids)
    /\ CourseLoop(leaf_topics, i + 1, total_questions', failed_topics)
    /\ UNCHANGED <<leaf_topics, failed_topics>>

\* One iteration of step 4 up to the call of insert_questions_with_metadata.
GenerateQuestions ==
    /\ pc = "c_generate"
    /\ \E reply \in Replies(QuestionTexts) :
         LET got == generate_comprehensive_questions(reply)
         IN  /\ requests' = Append(requests, QuestionRequest(leaf_topics[i], reply))
             /\ IF ~got.raised /\ Truthy(got.questions_data.value)
                THEN /\ EnterInsertQuestions(leaf_topics[i].id, got.questions_data)
                     /\ UNCHANGED <<leaf_topics, i, total_questions, failed_topics,
                                    result>>
                ELSE /\ LeafFailed
                     /\ UNCHANGED <<qvars, qret, log, base>>
    /\ UNCHANGED <<store, hvars, runs, responses, start, store_errors, hret>>

\* insert_questions_with_metadata returned its ids.
QuestionsInserted ==
    /\ pc = "q_returned"
    /\ LeafSucceeded(qret)
    /\ UNCHANGED <<store, hvars, qvars, requests, runs, responses, start, store_errors, hret, qret, log, base>>

\* insert_questions_with_metadata raised: except Exception in the loop.
QuestionsError ==
    /\ pc = "q_raised"
    /\ LeafFailed
    /\ UNCHANGED <<store, hvars, qvars, requests, runs, responses, start, store_errors, hret, qret, log, base>>

CourseStep ==
    \/ StartCourse
    \/ HierarchyError
    \/ EnumerateLeaves
    \/ GenerateQuestions
    \/ QuestionsInserted
    \/ QuestionsError

-----------------------------------------------------------------------------
(* The stand-in generation client: MockChatCompletions.create.             *)

\* What create reads in a prompt: the marker it contains, the quoted topic
\* and whether it asks for 5 questions.
AnalysisMarker == "TASK 1 - TOPIC ANALYSIS"
QuestionMarker == "You are an expert question designer"
MockPrompt(marker, topic, test_mode) ==
    [marker |-> marker, topic |-> topic, test_mode |-> test_mode]
MockPrompts ==
    {MockPrompt(AnalysisMarker, "Python basics", FALSE),
     MockPrompt(AnalysisMarker, "World history", FALSE),
     MockPrompt(QuestionMarker, "Python basics", TRUE),
     MockPrompt(QuestionMarker, "World history", FALSE),
     MockPrompt("", "", FALSE)}

\* The keyword tests on the lower-cased topic.
analysis_of(topic) ==
    CASE topic = "Python basics" -> "python"
      [] topic = "World history" -> "generic"
category_of(topic) ==
    CASE topic = "Python basics" -> "python"
      [] topic = "World history" -> "generic"

\* The content of a response: its kind, the topic it is about, the number
\* of questions in it and its first MaxMockQuestions questions.
MockContent(kind, topic, num, head) ==
    [kind |-> kind, topic |-> topic, num |-> num, head |-> head]

\* len(templates[q_type][category])
TemplateCount(category) == IF category = "generic" THEN 1 ELSE 2

\* One iteration of the loop of _generate_sample_questions: the questions
\* that random.choice and random.randint can produce.
MockQuestion(q_type, category, topic, t, d, p, c) ==
    [question_text |-> <<q_type, category, t>>, question_type |-> q_type,
     explanation |-> topic, difficulty_level |-> d, points |-> p,
     cognitive_level |-> c, key_concept |-> topic]
generate_sample_question(topic) ==
    LET category == category_of(topic)
        T == 1..TemplateCount(category)
    IN  {MockQuestion("multiple_choice", category, topic, t, d, p, c) :
            t \in T, d \in 1..4, p \in {1, 2},
            c \in {"understanding", "application", "recall"}}
        \cup {MockQuestion("true_false", category, topic, t, d, 1, "recall") :
            t \in T, d \in 1..3}
        \cup {MockQuestion(q_type, category, topic, t, d, p, "application") :
            q_type \in {"short_answer", "fill_in_blank"},
            t \in T, d \in 2..4, p \in {2, 3}}

\* num_questions = 5 if is_test_mode else random.randint(8, 15)
num_questions(test_mode) == IF test_mode THEN {5} ELSE 8..15

Min(a, b) == IF a < b THEN a ELSE b

\* The contents create can return for a prompt.
mock_topic_analysis_response(prompt) ==
    {MockContent(analysis_of(prompt.topic), prompt.topic, 0, <<>>)}
mock_question_generation_response(prompt) ==
    UNION {{MockContent("questions", prompt.topic, n, head) :
               head \in [1..Min(n, MaxMockQuestions)
                            -> generate_sample_question(prompt.topic)]} :
             n \in num_questions(prompt.test_mode)}
create(prompt) ==
    IF prompt.marker = AnalysisMarker THEN mock_topic_analysis_response(prompt)
    ELSE IF prompt.marker = QuestionMarker
         THEN mock_question_generation_response(prompt)
         ELSE {MockContent("error", "Unknown request type", 0, <<>>)}

\* One call of create.
MockCreate ==
    /\ Len(responses) < MaxMockCalls
    /\ \E prompt \in MockPrompts :
         \E content \in create(prompt) :
            responses' = Append(responses, [prompt |-> prompt, content |-> content])
    /\ UNCHANGED <<store, pc, hvars, qvars, cvars, hret, qret, runs, log, base,
                   start, store_errors>>

-----------------------------------------------------------------------------
(* Initial states: a store, nothing running.                               *)

InitWith(st) ==
    /\ topics = st.topics
    /\ questions = st.questions
    /\ choices = st.choices
    /\ correct_answers = st.correct_answers
    /\ pc = "idle"
    /\ analysis_data = StructureEmpty
    /\ main_topic_name = "Python"
    /\ main_topic_id = None
    /\ category_id = None
    /\ subcategory_id = None
    /\ total_estimated_questions = 0
    /\ hpos = <<0, 0, 0>>
    /\ topic_id = None
    /\ questions_data = JsonList(<<>>)
    /\ question_ids = <<>>
    /\ qi = 0
    /\ leaf_topics = <<>>
    /\ i = 0
    /\ total_questions = 0
    /\ failed_topics = <<>>
    /\ result = EmptyDict
    /\ hret = None
    /\ qret = <<>>
    /\ runs = 0
    /\ responses = <<>>
    /\ log = <<>>
    /\ requests = <<>>
    /\ base = Sizes
    /\ start = Sizes
    /\ store_errors = 0

-----------------------------------------------------------------------------
(* insert_topic_hierarchy called on its own, up to MaxRuns times.          *)

InitHierarchy == InitWith(EmptyStore)

CallHierarchy ==
    /\ pc \in {"idle", "h_returned", "h_raised"}
    /\ runs < MaxRuns
    /\ runs' = runs + 1
    /\ UNCHANGED responses
    /\ \E a \in StructureResponses, name \in RootNames :
         EnterHierarchy(a, name)
    /\ start' = Sizes
    /\ store_errors' = 0
    /\ UNCHANGED <<store, qvars, cvars, hret, qret>>

NextHierarchy == CallHierarchy \/ HierarchyStep
SpecHierarchy == InitHierarchy /\ [][NextHierarchy]_vars

-----------------------------------------------------------------------------
(* insert_topic_hierarchy called again with the same arguments after each  *)
(* successful return, up to MaxRuns times.                                 *)

InitRerun ==
    \E a \in WellFormedStructures, name \in RootNames :
        /\ topics = EmptyStore.topics
        /\ questions = EmptyStore.questions
        /\ choices = EmptyStore.choices
        /\ correct_answers = EmptyStore.correct_answers
        /\ pc = "idle"
        /\ analysis_data = a
        /\ main_topic_name = name
        /\ main_topic_id = None
        /\ category_id = None
        /\ subcategory_id = None
        /\ total_estimated_questions = 0
        /\ hpos = <<0, 0, 0>>
        /\ topic_id = None
        /\ questions_data = JsonList(<<>>)
        /\ question_ids = <<>>
        /\ qi = 0
        /\ leaf_topics = <<>>
        /\ i = 0
        /\ total_questions = 0
        /\ failed_topics = <<>>
        /\ result = EmptyDict
        /\ hret = None
        /\ qret = <<>>
        /\ runs = 0
        /\ responses = <<>>
        /\ log = <<>>
        /\ requests = <<>>
        /\ base = Sizes
        /\ start = Sizes
        /\ store_errors = 0

CallAgain ==
    /\ pc \in {"idle", "h_returned"}
    /\ runs < MaxRuns
    /\ runs' = runs + 1
    /\ UNCHANGED responses
    /\ EnterHierarchy(analysis_data, main_topic_name)
    /\ start' = Sizes
    /\ store_errors' = 0
    /\ UNCHANGED <<store, qvars, cvars, hret, qret>>

NextRerun == CallAgain \/ HierarchyStep
SpecRerun == InitRerun /\ [][NextRerun]_vars

-----------------------------------------------------------------------------
(* Calls of the stand-in client on their own.                              *)

InitMock == InitWith(EmptyStore)
NextMock == MockCreate
SpecMock == InitMock /\ [][NextMock]_vars

-----------------------------------------------------------------------------
(* insert_questions_with_metadata called on its own for the leaf topic of  *)
(* a store that already holds a question.                                  *)

InitQuestions == InitWith(PriorStore)

CallInsertQuestions ==
    /\ pc = "idle"
    /\ runs' = runs + 1
    /\ UNCHANGED responses
    /\ \E data \in QuestionBatches : EnterInsertQuestions(PriorLeafId, data)
    /\ start' = Sizes
    /\ store_errors' = 0
    /\ UNCHANGED <<store, hvars, cvars, hret>>

NextQuestions == CallInsertQuestions \/ QuestionsStep
SpecQuestions == InitQuestions /\ [][NextQuestions]_vars


-----------------------------------------------------------------------------
(* One run of generate_intelligent_course on a store that is empty or was  *)
(* left by an earlier run.                                                 *)

PriorStores == {EmptyStore, PriorStore}

Init == \E st \in PriorStores : InitWith(st)

Next == CourseStep \/ HierarchyStep \/ QuestionsStep
Spec == Init /\ [][Next]_vars

\* The run is a sequential program: it takes its next step while it has one.
SpecLive == Spec /\ WF_vars(Next)

-----------------------------------------------------------------------------
(* Properties of insert_topic_hierarchy.                                   *)

Front(p) == SubSeq(p, 1, Len(p) - 1)

\* The positions a response declares: <<c>>, <<c, s>> and <<c, s, l>>.
DeclaredPaths(a) ==
    {<<c>> : c \in 1..Len(Cats(a))}
      \cup UNION {{<<c, s>> : s \in 1..Len(Subs(a, c))} : c \in 1..Len(Cats(a))}
      \cup UNION {UNION {{<<c, s, l>> : l \in 1..Len(Leaves(a, c, s))} :
                           s \in 1..Len(Subs(a, c))} : c \in 1..Len(Cats(a))}

\* The dict a response declares at a position.
DeclaredAt(a, p) ==
    IF Len(p) = 1 THEN Cats(a)[p[1]]
    ELSE IF Len(p) = 2 THEN Subs(a, p[1])[p[2]]
    ELSE Leaves(a, p[1], p[2])[p[3]]

Inserts == {k \in 1..Len(log) : log[k].op = "insert"}
\* The id written for a declared position in the current call.
IdAt(p) ==
    IF p = <<>> THEN main_topic_id
    ELSE log[CHOOSE k \in Inserts : log[k].path = p].id

\* C3: when insert_topic_hierarchy returns, it has written exactly
\* 1 + |categories| + sum |subcategories| + sum |leaf_topics| topic rows,
\* one per declared position; the root row has no parent, every other row
\* has the row written for its declaring parent as parent_id and carries
\* the declared name; the returned value is the root's id.
C3_HierarchyRecords ==
    pc = "h_returned" =>
        /\ Cardinality({log[k].id : k \in 1..Len(log)})
              = 1 + DeclaredNodes(analysis_data)
        /\ Cardinality(Inserts) = DeclaredNodes(analysis_data)
        /\ {log[k].path : k \in Inserts} = DeclaredPaths(analysis_data)
        /\ hret \in 1..Len(topics)
        /\ log[1].id = hret
        /\ topics[hret].parent_id = None
        /\ topics[hret].name = main_topic_name
        /\ \A k \in Inserts :
              /\ topics[log[k].id].parent_id = IdAt(Front(log[k].path))
              /\ topics[log[k].id].name = DeclaredAt(analysis_data, log[k].path).name
              /\ log[k].id > base.topics

\* A call returned for the structure with two categories, on a store that
\* already held topics.
C3_Witness ==
    /\ pc = "h_returned"
    /\ analysis_data = StructureB
    /\ base.topics > 0

RootRows == {n \in 1..Len(topics) : topics[n].parent_id = None}

\* C4: the store never holds two root rows with the same slug, a root row
\* keeps its id and its slug for ever, and when insert_topic_hierarchy
\* returns, exactly one root row carries the given name and the call
\* returned its id: later runs with the same name update that row.
C4_OneRootPerSlug ==
    /\ \A m, n \in RootRows :
          SlugOf(topics[m].name) = SlugOf(topics[n].name) => m = n
    /\ pc = "h_returned" =>
          {n \in RootRows : topics[n].name = main_topic_name} = {hret}
C4_RootKeepsId ==
    \A n \in RootRows :
        /\ n <= Len(topics')
        /\ topics'[n].parent_id = None
        /\ SlugOf(topics'[n].name) = SlugOf(topics[n].name)
C4_RootUpsertIdempotent == []C4_OneRootPerSlug /\ [][C4_RootKeepsId]_vars

\* A second run returned the root row that the first run had created.
C4_Witness ==
    /\ pc = "h_returned"
    /\ runs = MaxRuns
    /\ hret <= base.topics
    /\ Cardinality(RootRows) = 1

-----------------------------------------------------------------------------
(* Properties of generate_intelligent_course.                              *)

Range(f) == {f[x] : x \in DOMAIN f}

\* The leaf topics have been enumerated and the run has not returned.
Generating ==
    pc \in {"c_generate", "q_question", "q_choices", "q_answers", "q_returned",
            "q_raised"}

\* The reply to the question request for the k-th enumerated leaf topic,
\* and the batch parsed from it.
ReplyOf(k) == requests[k + 1].reply
BatchOf(k) == generate_comprehensive_questions(ReplyOf(k)).questions_data.value

\* The k-th leaf topic was answered with text that is no JSON, or with a
\* batch in which a question lacks "question_text".
MalformedReply(k) ==
    /\ ~ReplyOf(k).raises
    /\ \/ ~json_loads(ReplyOf(k).text).ok
       \/ \E j \in 1..Len(BatchOf(k)) : "question_text" \notin DOMAIN BatchOf(k)[j]

\* The k-th leaf topic was answered with a non-empty batch of well-formed
\* questions.
WellFormedQuestion(q) ==
    /\ QuestionKeys \subseteq DOMAIN q
    /\ \A n \in 1..Len(ChoicesOf(q)) : ChoiceKeys \subseteq DOMAIN ChoicesOf(q)[n]
    /\ \A n \in 1..Len(AnswersOf(q)) : AnswerKeys \subseteq DOMAIN AnswersOf(q)[n]
WellFormedReply(k) ==
    /\ ~ReplyOf(k).raises
    /\ json_loads(ReplyOf(k).text).ok
    /\ json_loads(ReplyOf(k).text).value.type = "list"
    /\ BatchOf(k) # <<>>
    /\ \A j \in 1..Len(BatchOf(k)) : WellFormedQuestion(BatchOf(k)[j])

\* The enumerated leaf topics whose name is in failed_topics.
FailedLeaves == {k \in 1..Len(leaf_topics) : leaf_topics[k].name \in Range(failed_topics)}

\* The names of the leaf topics of a set of positions, in enumeration order.
RECURSIVE NamesOf(_, _)
NamesOf(ks, k) ==
    IF k > Len(leaf_topics) THEN <<>>
    ELSE (IF k \in ks THEN <<leaf_topics[k].name>> ELSE <<>>) \o NamesOf(ks, k + 1)

\* The sum of the batch sizes of the leaf topics of a set of positions.
BatchSizes(ks) ==
    LET size(k) == IF k \in ks THEN Len(BatchOf(k)) ELSE 0
    IN  SumTo(size, Len(leaf_topics))

AllLeavesRequested ==
    /\ Len(requests) = 1 + Len(leaf_topics)
    /\ \A k \in 1..Len(leaf_topics) :
          /\ requests[k + 1].kind = "questions"
          /\ requests[k + 1].topic = leaf_topics[k].id

\* C1: once the leaf topics are enumerated, no failure on a leaf topic
\* (client error, unparseable reply, store error) ends the run: the next
\* position is never the fatal one, the run reaches DONE, and at DONE every
\* enumerated leaf topic has been requested, in order, and the summary is
\* returned.
C1_NeverFatal == Generating => pc' # "fatal"
C1_Done ==
    pc = "done" =>
        /\ AllLeavesRequested
        /\ i = Len(leaf_topics) + 1
        /\ result = Summary(leaf_topics, total_questions, failed_topics)
C1_LeafFailureIsolated ==
    /\ [][C1_NeverFatal]_vars
    /\ []C1_Done
    /\ Generating ~> (pc = "done")

\* A run over three leaf topics in which the client raised for the first,
\* the second reply was no JSON and a store call raised for the third.
C1_Witness ==
    /\ pc = "done"
    /\ Len(leaf_topics) = 3
    /\ ReplyOf(1).raises
    /\ ~ReplyOf(2).raises /\ ReplyOf(2).text = "not json"
    /\ ~ReplyOf(3).raises /\ ReplyOf(3).text = "[QSA,QMC]"
    /\ store_errors = 1
    /\ Len(failed_topics) = 3

\* C2: at DONE, every leaf topic whose reply was no JSON or held a question
\* without question_text is named in failed_topics; total_questions is the
\* sum of the batch sizes of the leaf topics that are not in failed_topics;
\* and the returned failed_topics is the whole list of failed names, once
\* each, in enumeration order.
C2_FailedTopicsAccounting ==
    pc = "done" =>
        /\ \A k \in 1..Len(leaf_topics) : MalformedReply(k) => k \in FailedLeaves
        /\ result.total_questions = BatchSizes((1..Len(leaf_topics)) \ FailedLeaves)
        /\ result.failed_topics = NamesOf(FailedLeaves, 1)
        /\ result.total_topics = Len(leaf_topics)

\* Two leaf topics: the first got a batch of two questions, the second
\* the text "not json".
C2_Witness ==
    /\ pc = "done"
    /\ Len(leaf_topics) = 2
    /\ ~ReplyOf(1).raises /\ ReplyOf(1).text = "[QSA,QMC]"
    /\ ~ReplyOf(2).raises /\ ReplyOf(2).text = "not json"
    /\ result.total_topics = 2
    /\ result.total_questions = 2
    /\ result.failed_topics = <<leaf_topics[2].name>>

\* The number of leaf topics a structure response declares.
DeclaredLeaves(a) ==
    Cardinality({p \in DeclaredPaths(a) : Len(p) = 3})

\* C6: when every question reply of the run is a well-formed batch and no
\* store call raises, the summary has total_topics = the number of leaf
\* topics the structure response declares, total_questions = the sum of
\* the batch sizes and failed_topics = [].
C6_SummaryOfCleanRun ==
    (/\ pc = "done"
     /\ store_errors = 0
     /\ \A k \in 1..Len(leaf_topics) : WellFormedReply(k))
    => /\ result.total_topics = DeclaredLeaves(analysis_data)
       /\ result.total_questions = BatchSizes(1..Len(leaf_topics))
       /\ result.failed_topics = <<>>

\* The question rows the run has written.
NewQuestions == (start.questions + 1)..Len(questions)

\* C7: at DONE of a run in which no store call raised, the store holds no
\* question row of this run for a leaf topic whose reply was malformed,
\* such a leaf is listed in failed_topics, and total_questions is the
\* number of question rows the run inserted.
C7_FailedLeafHasNoQuestions ==
    (pc = "done" /\ store_errors = 0) =>
        /\ \A k \in 1..Len(leaf_topics) :
              MalformedReply(k) =>
                  /\ k \in FailedLeaves
                  /\ \A n \in NewQuestions : questions[n].topic_id # leaf_topics[k].id
        /\ result.total_questions = Cardinality(NewQuestions)

-----------------------------------------------------------------------------
(* Properties of insert_questions_with_metadata.                           *)

\* The batch of the current call, when it is a list.
Items == IF questions_data.type = "list" THEN questions_data.value ELSE <<>>

\* The rows a table holds for a question.
RowsOf(table, q) == {n \in 1..Len(table) : table[n].question_id = q}

ChoiceTypes == {"multiple_choice", "true_false"}
AnswerTypes == {"short_answer", "fill_in_blank"}

\* C5: when insert_questions_with_metadata returns, it has written one
\* question row per input element and returns their ids in input order;
\* a multiple_choice/true_false question has as many choice rows as input
\* choices, the i-th with sort_order = i (from 0) and the i-th text; a
\* short_answer/fill_in_blank question has the same for correct answers.
C5_OneRecordPerElement ==
    pc = "q_returned" =>
        /\ Len(qret) = Len(Items)
        /\ Len(questions) = base.questions + Len(Items)
        /\ \A j \in 1..Len(Items) :
              /\ qret[j] = base.questions + j
              /\ questions[qret[j]].question_text = Items[j].question_text
              /\ questions[qret[j]].topic_id = topic_id
              /\ Items[j].question_type \in ChoiceTypes =>
                    LET cs == ChoicesOf(Items[j])
                    IN  /\ Cardinality(RowsOf(choices, qret[j])) = Len(cs)
                        /\ \A n \in 1..Len(cs) :
                              \E r \in RowsOf(choices, qret[j]) :
                                  /\ choices[r].sort_order = n - 1
                                  /\ choices[r].choice_text = cs[n].text
              /\ Items[j].question_type \in AnswerTypes =>
                    LET as == AnswersOf(Items[j])
                    IN  /\ Cardinality(RowsOf(correct_answers, qret[j])) = Len(as)
                        /\ \A n \in 1..Len(as) :
                              \E r \in RowsOf(correct_answers, qret[j]) :
                                  /\ correct_answers[r].sort_order = n - 1
                                  /\ correct_answers[r].answer_text = as[n].text

\* A call returned for a fill_in_blank question with two answers followed
\* by a multiple_choice question with two choices.
C5_Witness ==
    /\ pc = "q_returned"
    /\ Items = <<QFIB, QMC>>
    /\ Len(qret) = 2
    /\ Len(correct_answers) = base.correct_answers + 2
    /\ Len(choices) = base.choices + 2

\* C8: choice rows belong only to multiple_choice/true_false questions,
\* correct-answer rows only to short_answer/fill_in_blank questions, and no
\* question owns rows of both tables.
C8_ChoicesXorAnswers ==
    \A q \in 1..Len(questions) :
        /\ RowsOf(choices, q) # {} => questions[q].question_type \in ChoiceTypes
        /\ RowsOf(correct_answers, q) # {} => questions[q].question_type \in AnswerTypes
        /\ RowsOf(choices, q) = {} \/ RowsOf(correct_answers, q) = {}

QuestionWrites == {k \in 1..Len(log) : log[k].table = "questions"}
AnswerWrites == {k \in 1..Len(log) : log[k].table = "correct_answers"}
ChoiceWrites == {k \in 1..Len(log) : log[k].table = "choices"}

\* The stored value of an optional field: the input value when the field
\* is present, the default otherwise.
Stored(row, d, field, default) ==
    row[field] = IF field \in DOMAIN d THEN d[field] ELSE default

\* C9: every question row written has points and difficulty_level equal
\* to the input value, or 1 when the input has none; every correct-answer
\* row written has is_case_sensitive and is_exact_match equal to the input
\* value, or false and true when the input has none; the required fields
\* are copied.
C9_DefaultsForAbsentFields ==
    /\ \A k \in QuestionWrites :
          LET row == questions[log[k].id]
              q == Items[log[k].path[1]]
          IN  /\ Stored(row, q, "points", 1)
              /\ Stored(row, q, "difficulty_level", 1)
              /\ row.question_text = q.question_text
              /\ row.question_type = q.question_type
              /\ row.explanation = q.explanation
    /\ \A k \in AnswerWrites :
          LET row == correct_answers[log[k].id]
              a == AnswersOf(Items[log[k].path[1]])[log[k].path[2]]
          IN  /\ Stored(row, a, "is_case_sensitive", FALSE)
              /\ Stored(row, a, "is_exact_match", TRUE)
              /\ row.answer_text = a.text

\* A call returned for a question with points and difficulty_level
\* followed by one without points whose answers carry the optional fields
\* (the first) and lack them (the second).
C9_Witness ==
    /\ pc = "q_returned"
    /\ Items = <<QMC, QFIB>>
    /\ Cardinality(QuestionWrites) = 2
    /\ Cardinality(AnswerWrites) = 2

\* The new rows of a table.
NewRows(table, first) == (first + 1)..Len(table)

\* A question of the batch can be stored: it has the required keys.
Storable(q) ==
    /\ QuestionKeys \subseteq DOMAIN q
    /\ \A n \in 1..Len(ChoicesOf(q)) : ChoiceKeys \subseteq DOMAIN ChoicesOf(q)[n]
    /\ \A n \in 1..Len(AnswersOf(q)) : AnswerKeys \subseteq DOMAIN AnswersOf(q)[n]

\* C10: every choice row and every correct-answer row written by the call
\* is one element of the input, at its position, for the question row of
\* its element, and no element is written twice; a call whose questions
\* carry the required keys raises only when a store call raised; and a
\* returned true_false question with one choice owns exactly one choice row.
C10_InsertedAsGiven ==
    /\ \A r \in NewRows(choices, base.choices) :
          \E j \in 1..Len(question_ids) :
              \E n \in 1..Len(ChoicesOf(Items[j])) :
                  /\ choices[r].question_id = question_ids[j]
                  /\ choices[r].sort_order = n - 1
                  /\ choices[r].choice_text = ChoicesOf(Items[j])[n].text
                  /\ choices[r].is_correct = ChoicesOf(Items[j])[n].is_correct
    /\ \A r \in NewRows(correct_answers, base.correct_answers) :
          \E j \in 1..Len(question_ids) :
              \E n \in 1..Len(AnswersOf(Items[j])) :
                  /\ correct_answers[r].question_id = question_ids[j]
                  /\ correct_answers[r].sort_order = n - 1
                  /\ correct_answers[r].answer_text = AnswersOf(Items[j])[n].text
    /\ \A j \in 1..Len(question_ids) :
          /\ Cardinality(RowsOf(choices, question_ids[j])) <= Len(ChoicesOf(Items[j]))
          /\ Cardinality(RowsOf(correct_answers, question_ids[j]))
                <= Len(AnswersOf(Items[j]))
    /\ (/\ pc = "q_raised"
        /\ questions_data.type = "list"
        /\ \A j \in 1..Len(Items) : Storable(Items[j]))
       => store_errors > 0
    /\ pc = "q_returned" =>
          \A j \in 1..Len(Items) :
              (Items[j].question_type = "true_false" /\ Len(ChoicesOf(Items[j])) = 1)
                  => Cardinality(RowsOf(choices, qret[j])) = 1

\* A call returned for a batch that holds the true_false question with a
\* single choice, and the store holds one choice row for it.
C10_Witness ==
    /\ pc = "q_returned"
    /\ Len(Items) = 2
    /\ Items[2] = QTF
    /\ Cardinality(RowsOf(choices, qret[2])) = 1

-----------------------------------------------------------------------------
(* Failures before the loop over the leaf topics.                          *)

\* The state of the four tables.
Store ==
    [topics |-> topics, questions |-> questions, choices |-> choices,
     correct_answers |-> correct_answers]

\* The structure request failed: the client raised, or json.loads raised
\* on its text.
StructureRequestFailed ==
    /\ requests # <<>>
    /\ \/ requests[1].reply.raises
       \/ ~json_loads(requests[1].reply.text).ok

\* C11: when the structure request fails or its reply does not parse, the
\* run has ended with the error: no summary is returned, the four tables
\* are as they were before the run, no leaf topic was enumerated and no
\* question request was made.
C11_AnalysisFailureIsFatal ==
    StructureRequestFailed =>
        /\ pc = "fatal"
        /\ result = EmptyDict
        /\ Store \in PriorStores
        /\ Sizes = start
        /\ log = <<>>
        /\ leaf_topics = <<>>
        /\ Len(requests) = 1

\* A run on a store that holds an earlier course ended on the reply
\* "not json" to the structure request.
C11_Witness ==
    /\ pc = "fatal"
    /\ requests = <<StructureRequest([raises |-> FALSE, text |-> "not json"])>>
    /\ Store = PriorStore

\* insert_topic_hierarchy was entered and has raised.
HierarchyFailed ==
    /\ pc \in {"h_raised", "fatal"}
    /\ requests # <<>>
    /\ StructureAccepted(requests[1].reply)
    /\ hret = None

\* The ids of the rows the current call has created.
Created == {log[k].id : k \in 1..Len(log)} \ (1..base.topics)

\* C12: when insert_topic_hierarchy raises, the rows it wrote before are
\* all in the table as written and nothing else was added (no rollback, no
\* later insert), the earlier rows other than the root are untouched, the
\* error leaves generate_intelligent_course with no change to the store,
\* and the run has enumerated no leaf topic, sent no question request and
\* returned no summary.
C12_Partial ==
    HierarchyFailed =>
        /\ Len(topics) = base.topics + Cardinality(Created)
        /\ \A k \in Inserts :
              /\ topics[log[k].id].name = DeclaredAt(analysis_data, log[k].path).name
              /\ topics[log[k].id].parent_id = IdAt(Front(log[k].path))
        /\ log # <<>> =>
              topics[log[1].id]
                  = [id |-> log[1].id] @@ MainTopicData(analysis_data, main_topic_name)
        /\ \A n \in 1..base.topics :
              (log = <<>> \/ n # log[1].id) => topics[n] = PriorTopics[n]
        /\ [questions |-> questions, choices |-> choices,
            correct_answers |-> correct_answers]
             \in {[f \in {"questions", "choices", "correct_answers"} |-> st[f]] :
                     st \in PriorStores}
        /\ leaf_topics = <<>>
        /\ Len(requests) = 1
        /\ result = EmptyDict
C12_Propagates ==
    /\ pc = "h_raised" => (pc' = "fatal" /\ store' = store)
    /\ pc # "fatal"
C12_HierarchyFailureIsFatal == []C12_Partial /\ [][C12_Propagates]_vars

\* The store refused the fourth write of a run: the root, a category and a
\* subcategory stay in the table and the run has ended.
C12_Witness ==
    /\ pc = "fatal"
    /\ HierarchyFailed
    /\ store_errors = 1
    /\ Len(log) = 3
    /\ Len(topics) = base.topics + 3

-----------------------------------------------------------------------------
(* Failures inside insert_questions_with_metadata.                         *)

\* The positions of the batch for which the call has written a row.
WrittenPositions == {log[k].path[1] : k \in 1..Len(log)}

\* The rows the call wrote for position j are in the tables, complete.
PositionStored(j) ==
    /\ j <= Len(question_ids)
    /\ question_ids[j] <= Len(questions)
    /\ questions[question_ids[j]].question_text = Items[j].question_text
    /\ Cardinality(RowsOf(choices, question_ids[j])) = Len(ChoicesOf(Items[j]))
    /\ Cardinality(RowsOf(correct_answers, question_ids[j]))
          = Len(AnswersOf(Items[j]))

\* C13: when insert_questions_with_metadata raises at position qi of its
\* batch, no row of a later position was written, every earlier position
\* has its rows in the tables, and every logged row is in its table; a
\* store call that fails makes the call raise at once with the store as it
\* was, and nothing is written after the call has raised.
C13_Stopped ==
    (pc = "q_raised" /\ questions_data.type = "list") =>
        /\ qi \in 1..Len(Items)
        /\ \A j \in WrittenPositions : j <= qi
        /\ Len(question_ids) \in {qi - 1, qi}
        /\ Len(questions) = base.questions + Len(question_ids)
        /\ \A j \in 1..(qi - 1) : PositionStored(j)
        /\ \A k \in ChoiceWrites : log[k].id <= Len(choices)
        /\ \A k \in AnswerWrites : log[k].id <= Len(correct_answers)
C13_Raises ==
    /\ store_errors' > store_errors => (pc' = "q_raised" /\ store' = store)
    /\ pc # "q_raised"
C13_BatchAbortsAtFailure == []C13_Stopped /\ [][C13_Raises]_vars

\* The store refused the rows of the second of three questions: the first
\* question is stored, the third was never reached.
C13_Witness ==
    /\ pc = "q_raised"
    /\ store_errors = 1
    /\ Len(Items) = 3
    /\ qi = 2
    /\ Len(question_ids) = 2
    /\ Len(ChoicesOf(Items[1])) = 2
    /\ PositionStored(1)

-----------------------------------------------------------------------------
(* Repeated runs of insert_topic_hierarchy with the same arguments.        *)

\* The tag the function gives to the rows of a depth.
CategoryTypeAt(p) ==
    IF Len(p) = 1 THEN "main_category"
    ELSE IF Len(p) = 2 THEN "subcategory" ELSE "leaf_topic"

\* The rows in the table written for a declared position, in any run.
Copies(p) ==
    IF p = <<>> THEN {n \in RootRows : topics[n].name = main_topic_name}
    ELSE {n \in 1..Len(topics) :
            /\ topics[n].parent_id # None
            /\ topics[n].name = DeclaredAt(analysis_data, p).name
            /\ topics[n].metadata.category_type = CategoryTypeAt(p)}

\* C14: after the k-th successful run with the same name and structure,
\* the table holds k rows for every declared category, subcategory and
\* leaf topic, each under its own copy of the declaring parent, the k-th
\* copies being rows that did not exist before the run, and one root row.
C14_NoDedupBelowRoot ==
    pc = "h_returned" =>
        /\ Cardinality(RootRows) = 1
        /\ Len(topics) = 1 + runs * DeclaredNodes(analysis_data)
        /\ \A p \in DeclaredPaths(analysis_data) :
              /\ Cardinality(Copies(p)) = runs
              /\ Cardinality({topics[n].parent_id : n \in Copies(p)})
                    = IF Len(p) = 1 THEN 1 ELSE runs
              /\ \A n \in Copies(p) : topics[n].parent_id \in Copies(Front(p))
              /\ Cardinality({n \in Copies(p) : n > base.topics}) = 1

\* The second run with the structure of two categories has returned.
C14_Witness ==
    /\ pc = "h_returned"
    /\ runs = 2
    /\ analysis_data = StructureB
    /\ Cardinality(Copies(<<2, 1, 1>>)) = 2

-----------------------------------------------------------------------------
(* The stand-in client.                                                    *)

\* C15: two calls of create with the same prompt return the same content.
C15_MockDeterministic ==
    \A a, b \in 1..Len(responses) :
        responses[a].prompt = responses[b].prompt
            => responses[a].content = responses[b].content

-----------------------------------------------------------------------------
(* The leaf topics enumerated by generate_intelligent_course.              *)

\* The root row above a row of the topics table.
RECURSIVE RootOf(_)
RootOf(n) == IF topics[n].parent_id = None THEN n ELSE RootOf(topics[n].parent_id)

\* The leaf topics have been enumerated.
Enumerated == Generating \/ pc = "done"

\* C16: the enumerated leaf topics are the leaf topics of this run: as
\* many as the structure response declares, each a row written by this run
\* beneath the root of this run, and every question request is for one of
\* them; at DONE total_topics is the declared number.
C16_LeavesOfThisRun ==
    Enumerated =>
        /\ Len(leaf_topics) = DeclaredLeaves(analysis_data)
        /\ \A k \in 1..Len(leaf_topics) :
              /\ leaf_topics[k].id > start.topics
              /\ RootOf(leaf_topics[k].id) = main_topic_id
        /\ \A r \in 2..Len(requests) :
              /\ requests[r].topic > start.topics
              /\ RootOf(requests[r].topic) = main_topic_id
        /\ pc = "done" => result.total_topics = DeclaredLeaves(analysis_data)

-----------------------------------------------------------------------------
(* The phases of generate_intelligent_course.                              *)

\* The phase a position belongs to: before the run, the hierarchy write
\* sequence, the leaf enumeration, the loop over the leaf topics, DONE, and
\* the fatal exit.
Phase(p) ==
    CASE p = "idle" -> 0
      [] p \in {"h_upsert", "h_category", "h_subcategory", "h_leaf", "h_update",
                "h_raised"} -> 1
      [] p = "h_returned" -> 2
      [] p \in {"c_generate", "q_question", "q_choices", "q_answers", "q_returned",
                "q_raised"} -> 3
      [] p = "done" -> 4
      [] p = "fatal" -> 5

\* The place of a topic id in the enumeration.
PlaceOf(id) == CHOOSE k \in 1..Len(leaf_topics) : leaf_topics[k].id = id

C17_Order ==
    /\ requests = <<>> => (pc = "idle" /\ Sizes = start /\ log = <<>>)
    /\ requests # <<>> => requests[1].kind = "structure"
    /\ \A r \in 2..Len(requests) :
          /\ requests[r].kind = "questions"
          /\ Phase(pc) \in {3, 4}
          /\ requests[r].topic = leaf_topics[r - 1].id
    /\ Phase(pc) \in {1, 2} => (Len(requests) = 1 /\ leaf_topics = <<>>
                                /\ Sizes.questions = start.questions)
    /\ pc = "c_generate" => Len(requests) = i
    /\ (Phase(pc) = 3 /\ pc # "c_generate") => Len(requests) = i + 1
    /\ pc = "done" => Len(requests) = 1 + Len(leaf_topics)
    /\ Phase(pc) \in {3, 4} =>
          \A m, n \in NewQuestions :
              m < n => PlaceOf(questions[m].topic_id) <= PlaceOf(questions[n].topic_id)
C17_Step ==
    /\ Phase(pc') >= Phase(pc)
    /\ requests' # requests => (pc \in {"idle", "c_generate"}
                                /\ Len(requests') = Len(requests) + 1
                                /\ store' = store)
    /\ topics' # topics => (Phase(pc) = 1 /\ Phase(pc') = IF pc = "h_update" THEN 2 ELSE 1)
    /\ leaf_topics' # leaf_topics => pc = "h_returned"
    /\ pc = "h_returned" => Phase(pc') \in {3, 4, 5}
    /\ <<questions, choices, correct_answers>>' # <<questions, choices, correct_answers>>
          => (pc \in {"q_question", "q_choices", "q_answers"}
              /\ topic_id = leaf_topics[i].id)

\* C17: the run goes through its phases in order and never back: one
\* structure request before any store write; topic rows are written only
\* in the hierarchy phase, which is over when the leaf topics are
\* enumerated, once; then one question request per enumerated leaf topic,
\* in enumeration order, sent only when the rows of the leaf before it
\* are written.
C17_PhasesInOrder == []C17_Order /\ [][C17_Step]_vars

\* A run ended after two leaf topics that each got their questions.
C17_Witness ==
    /\ pc = "done"
    /\ Len(leaf_topics) = 2
    /\ Len(requests) = 3
    /\ result.total_questions = 4
    /\ Cardinality({questions[n].topic_id : n \in NewQuestions}) = 2

\* C18: when the enumeration returns no leaf topic, the run is at DONE
\* with total_topics = 0, total_questions = 0 and failed_topics = [], it
\* has sent no question request and written no question; the step that
\* enumerates no leaf topic goes to DONE.
C18_EmptyDone ==
    (Enumerated /\ leaf_topics = <<>>) =>
        /\ pc = "done"
        /\ result.total_topics = 0
        /\ result.total_questions = 0
        /\ result.failed_topics = <<>>
        /\ result.main_topic_id = hret
        /\ Len(requests) = 1
        /\ [Sizes EXCEPT !.topics = 0] = [start EXCEPT !.topics = 0]
C18_EmptyStep ==
    (pc = "h_returned" /\ LeafRowIds = {} /\ store_errors' = store_errors)
        => pc' = "done"
C18_EmptyEnumerationIsDone == []C18_EmptyDone /\ [][C18_EmptyStep]_vars

\* A run whose structure declares no category ended with no leaf topic.
C18_Witness ==
    /\ pc = "done"
    /\ leaf_topics = <<>>
    /\ LeafRowIds = {}
    /\ Len(topics) = 1
    /\ result.total_topics = 0

-----------------------------------------------------------------------------
(* The order of the writes of insert_topic_hierarchy.                      *)

\* p comes before q in pre-order: p is above q, or p is to the left of q.
Precedes(p, q) ==
    \/ Len(p) < Len(q) /\ SubSeq(q, 1, Len(p)) = p
    \/ \E j \in 1..Min(Len(p), Len(q)) :
          /\ p[j] < q[j]
          /\ SubSeq(p, 1, j - 1) = SubSeq(q, 1, j - 1)

\* C19: the root is the first write; the inserts follow in pre-order of
\* the declared structure, with no declared position skipped: each row is
\* written after the row of its declaring parent, under the id that write
\* returned, and after every row of the categories declared before it.
C19_PreOrderWrites ==
    /\ log # <<>> => (log[1].op = "upsert" /\ log[1].path = <<>>)
    /\ \A k \in Inserts :
          /\ k > 1
          /\ log[k].path \in DeclaredPaths(analysis_data)
          /\ \A m \in Inserts : (m < k) <=> Precedes(log[m].path, log[k].path)
          /\ \A q \in DeclaredPaths(analysis_data) :
                Precedes(q, log[k].path) => \E m \in Inserts : m < k /\ log[m].path = q
          /\ \A m \in 1..(k - 1) : log[m].id < log[k].id \/ m = 1
          /\ topics[log[k].id].parent_id = IdAt(Front(log[k].path))
          /\ \E m \in 1..(k - 1) : log[m].path = Front(log[k].path)

\* The call for the structure of two categories returned: the childless
\* second subcategory of the first category was the fifth write, before
\* the second category.
C19_Witness ==
    /\ pc = "h_returned"
    /\ analysis_data = StructureB
    /\ Len(log) = 9
    /\ log[5].path = <<1, 2>>
    /\ log[6].path = <<2>>

-----------------------------------------------------------------------------
(* References between the rows written by the question inserter.           *)

\* The log entry of the question row of a position of the batch.
QuestionWriteAt(j) == CHOOSE k \in QuestionWrites : log[k].path = <<j>>

\* C20: every question row of the run refers to an enumerated leaf topic,
\* a row tagged as leaf topic, and the rows of the current call to the
\* topic id it was given; every choice and correct-answer row of the run
\* refers to a question row of the run; in the current call it refers to
\* the question row written earlier for the same input element, and it was
\* written before the question row of the next element.
C20_ReferentialIntegrity ==
    /\ \A n \in NewQuestions :
          /\ \E k \in 1..Len(leaf_topics) : leaf_topics[k].id = questions[n].topic_id
          /\ questions[n].topic_id \in LeafRowIds
    /\ \A k \in QuestionWrites : questions[log[k].id].topic_id = topic_id
    /\ \A n \in NewRows(choices, start.choices) : choices[n].question_id \in NewQuestions
    /\ \A n \in NewRows(correct_answers, start.correct_answers) :
          correct_answers[n].question_id \in NewQuestions
    /\ \A k \in ChoiceWrites \cup AnswerWrites :
          LET j == log[k].path[1]
              row == IF k \in ChoiceWrites THEN choices[log[k].id]
                     ELSE correct_answers[log[k].id]
          IN  /\ \E m \in QuestionWrites : log[m].path = <<j>>
              /\ QuestionWriteAt(j) < k
              /\ row.question_id = log[QuestionWriteAt(j)].id
              /\ \A m \in QuestionWrites : log[m].path[1] > j => k < m

\* The call for the second enumerated leaf topic returned after writing a
\* question with an answer and a question with two choices.
C20_Witness ==
    /\ pc = "q_returned"
    /\ i = 2
    /\ Len(log) = 5
    /\ Cardinality(ChoiceWrites) = 2
    /\ Cardinality(AnswerWrites) = 1

-----------------------------------------------------------------------------
(* Rows are written once.                                                  *)

\* Every row of a table is in the table after the step, as it was.
Kept(table, after) ==
    /\ Len(after) >= Len(table)
    /\ \A n \in 1..Len(table) : after[n] = table[n]

Patches == {k \in 1..Len(log) : log[k].op = "update"}

\* C21: no step removes a row; the only rows a step changes are the root
\* row under the upsert and under the metadata patch of
\* insert_topic_hierarchy, which is made at most once per run; question,
\* choice and correct-answer rows are never changed, and once the
\* hierarchy is written (leaf enumeration, question inserts, DONE) no
\* topic row is changed or added.
C21_Step ==
    /\ Len(topics') >= Len(topics)
    /\ \A n \in 1..Len(topics) :
          topics'[n] # topics[n] =>
              /\ pc \in {"h_upsert", "h_update"}
              /\ n = main_topic_id'
              /\ topics[n].parent_id = None
              /\ topics'[n].id = n
    /\ Kept(questions, questions')
    /\ Kept(choices, choices')
    /\ Kept(correct_answers, correct_answers')
    /\ Phase(pc) >= 2 => topics' = topics
C21_OnePatch ==
    /\ Cardinality(Patches) <= 1
    /\ \A k \in Patches : k = Len(log) /\ log[k].id = main_topic_id
C21_WriteOnce == [][C21_Step]_vars /\ []C21_OnePatch

\* A run on the store of an earlier course wrote a new course and new
\* questions for the old leaf topic: the old rows are as they were, but for
\* the root.
C21_Witness ==
    /\ pc = "done"
    /\ start.topics = Len(PriorTopics)
    /\ main_topic_name = "Marketing"
    /\ Len(topics) > start.topics
    /\ Len(questions) > start.questions
    /\ Kept(PriorStore.topics, topics)
    /\ Kept(PriorStore.questions, questions)
    /\ Kept(PriorStore.choices, choices)

-----------------------------------------------------------------------------
(* The estimate written to the root.                                       *)

\* The sum of the counts of a question strategy.
RECURSIVE StrategyTotal(_, _)
StrategyTotal(strategy, keys) ==
    IF keys = {} THEN 0
    ELSE LET key == CHOOSE x \in keys : TRUE
         IN  strategy[key] + StrategyTotal(strategy, keys \ {key})

\* What a declared leaf topic counts for.
LeafEstimate(leaf) ==
    IF "question_strategy" \in DOMAIN leaf /\ DOMAIN leaf.question_strategy # {}
    THEN StrategyTotal(leaf.question_strategy, DOMAIN leaf.question_strategy)
    ELSE 100

RECURSIVE EstimateOver(_, _)
EstimateOver(a, paths) ==
    IF paths = {} THEN 0
    ELSE LET p == CHOOSE x \in paths : TRUE
         IN  LeafEstimate(DeclaredAt(a, p)) + EstimateOver(a, paths \ {p})

LeafPaths(a) == {p \in DeclaredPaths(a) : Len(p) = 3}

\* C22: when insert_topic_hierarchy returns, the root's metadata holds
\* total_estimated_questions = the sum over the declared leaf topics of
\* the counts of their question_strategy, 100 for a leaf without one or
\* with an empty one, next to the keys analysis and course_type as the
\* upsert wrote them; while the call runs or after it raised, the root it
\* wrote holds 0.
C22_EstimateOnRoot ==
    /\ pc = "h_returned" =>
          /\ topics[hret].metadata.total_estimated_questions
                = EstimateOver(analysis_data, LeafPaths(analysis_data))
          /\ DOMAIN topics[hret].metadata
                = {"analysis", "course_type", "total_estimated_questions"}
          /\ topics[hret].metadata.analysis = analysis_data.analysis
          /\ topics[hret].metadata.course_type = "auto_generated"
    /\ (pc \in {"h_category", "h_subcategory", "h_leaf", "h_update", "h_raised"}
        /\ log # <<>>) =>
          topics[main_topic_id].metadata.total_estimated_questions = 0

\* The call returned for a leaf with an empty strategy (100) and a leaf
\* with a strategy of 2 + 1 questions, on a root an earlier run had written.
C22_Witness ==
    /\ pc = "h_returned"
    /\ analysis_data = StructureB
    /\ hret <= base.topics
    /\ topics[hret].metadata.total_estimated_questions = 103

-----------------------------------------------------------------------------
(* The question types insert_questions_with_metadata stores.               *)

\* C23: no question row written by insert_questions_with_metadata has a
\* question_type other than multiple_choice, true_false, short_answer and
\* fill_in_blank.
C23_OnlyDispatchableTypes ==
    \A n \in NewQuestions :
        questions[n].question_type \in ChoiceTypes \cup AnswerTypes

-----------------------------------------------------------------------------
(* The accounting of the loop over the leaf topics.                        *)

\* The leaf topics the loop is through with.
Processed == 1..(i - 1)

\* C24: while the loop runs, a step that finishes a leaf topic either adds
\* the number of returned ids to total_questions and leaves failed_topics
\* alone, or appends the leaf topic's name to failed_topics and leaves
\* total_questions alone; no other step changes either; so each processed
\* leaf topic is in exactly one of the two accounts, total_questions never
\* decreases, and at DONE len(failed_topics) <= total_topics.
C24_Step ==
    Generating =>
        /\ leaf_topics' = leaf_topics
        /\ total_questions' >= total_questions
        /\ IF i' # i
           THEN /\ i' = i + 1
                /\ \/ /\ pc = "q_returned"
                      /\ total_questions' = total_questions + Len(qret)
                      /\ failed_topics' = failed_topics
                   \/ /\ pc \in {"c_generate", "q_raised"}
                      /\ total_questions' = total_questions
                      /\ failed_topics' = Append(failed_topics, leaf_topics[i].name)
           ELSE /\ total_questions' = total_questions
                /\ failed_topics' = failed_topics
C24_Accounted ==
    Enumerated =>
        /\ i - 1 <= Len(leaf_topics)
        /\ FailedLeaves \subseteq Processed
        /\ Cardinality(FailedLeaves) = Len(failed_topics)
        /\ failed_topics = NamesOf(FailedLeaves, 1)
        /\ total_questions = BatchSizes(Processed \ FailedLeaves)
        /\ pc = "done" =>
              /\ i - 1 = Len(leaf_topics)
              /\ Len(result.failed_topics) <= result.total_topics
              /\ result.total_questions = total_questions
              /\ result.failed_topics = failed_topics
C24_LoopAccounting == []C24_Accounted /\ [][C24_Step]_vars

\* Three leaf topics: one got its questions, one failed in the store and
\* one failed otherwise.
C24_Witness ==
    /\ pc = "done"
    /\ Len(leaf_topics) = 3
    /\ store_errors = 1
    /\ Len(failed_topics) = 2
    /\ total_questions = 2
    /\ Cardinality(Processed \ FailedLeaves) = 1

-----------------------------------------------------------------------------
(* A response that is an empty list.                                       *)

EmptyOrUnparseable(reply) == ~reply.raises /\ reply.text \in {"[]", "not json"}

\* The question rows of this run under the k-th leaf topic.
QuestionsUnder(k) ==
    {n \in NewQuestions : questions[n].topic_id = leaf_topics[k].id}

\* C25: the step that gets the text "[]" for a leaf topic does what the
\* step that gets unparseable text does: it does not enter
\* insert_questions_with_metadata and writes nothing, appends the leaf
\* topic's name to failed_topics, leaves total_questions alone and goes to
\* the next leaf topic; such a leaf topic has no question of this run.
C25_Step ==
    (/\ pc = "c_generate"
     /\ Len(requests') = Len(requests) + 1
     /\ EmptyOrUnparseable(requests'[Len(requests')].reply)) =>
        /\ store' = store
        /\ log' = log
        /\ pc' \in {"c_generate", "done"}
        /\ i' = i + 1
        /\ failed_topics' = Append(failed_topics, leaf_topics[i].name)
        /\ total_questions' = total_questions
C25_EmptyFailed ==
    Enumerated =>
        \A k \in Processed :
            EmptyOrUnparseable(ReplyOf(k)) =>
                /\ k \in FailedLeaves
                /\ QuestionsUnder(k) = {}
C25_EmptyListIsFailure == []C25_EmptyFailed /\ [][C25_Step]_vars

\* The first leaf topic got "[]", the second a batch of two questions.
C25_Witness ==
    /\ pc = "done"
    /\ Len(leaf_topics) = 2
    /\ ~ReplyOf(1).raises /\ ReplyOf(1).text = "[]"
    /\ ~ReplyOf(2).raises /\ ReplyOf(2).text = "[QSA,QMC]"
    /\ failed_topics = <<leaf_topics[1].name>>
    /\ total_questions = 2
    /\ QuestionsUnder(1) = {}
    /\ Cardinality(QuestionsUnder(2)) = 2

=============================================================================
